---- MODULE Spec2Model ----
(***************************************************************************)
(* Model of src/app/app.py: the structured JSON logger (StructuredLogger   *)
(* and its JSONFormatter), the request lifecycle hooks (before_request,    *)
(* after_request), the route handlers and the process life cycle           *)
(* (setup_tracing, __main__, signal_handler).                              *)
(*                                                                         *)
(* Python values are tagged records [t, v] so that values of different     *)
(* Python types can be told apart; a dict is a function from its keys.     *)
(***************************************************************************)
EXTENDS Integers, Sequences, FiniteSets, Bags, TLC

(***************************************************************************)
(* Bounds of the model.                                                    *)
(***************************************************************************)
\* Number of requests that can be in flight at the same time.
MaxInFlight == 2
\* Number of calls made to the logger's entry points by code other than
\* the call sites of app.py (the entry points take any message and fields).
MaxLogCalls == 1

(***************************************************************************)
(* Python values.                                                          *)
(***************************************************************************)
S(x) == [t |-> "str", v |-> x]
N(x) == [t |-> "num", v |-> x]
B(x) == [t |-> "bool", v |-> x]
L(x) == [t |-> "list", v |-> x]
D(x) == [t |-> "dict", v |-> x]
PyNone == [t |-> "none", v |-> "None"]
\* A Python object json.dumps has no encoding for (a set, a datetime, ...).
Obj(x) == [t |-> "object", v |-> x]

EmptyDict == [k \in {} |-> PyNone]
\* dict.update(other): the keys of other win.
Update(d, other) == other @@ d

(***************************************************************************)
(* format(n, '0<width>x'): lowercase hexadecimal, zero-padded.             *)
(***************************************************************************)
HexDigits == "0123456789abcdef"
HexChar(n) == SubSeq(HexDigits, n + 1, n + 1)

RECURSIVE ToHex(_)
ToHex(n) == IF n < 16 THEN HexChar(n) ELSE ToHex(n \div 16) \o HexChar(n % 16)

RECURSIVE ZeroPad(_, _)
ZeroPad(s, width) == IF Len(s) >= width THEN s ELSE ZeroPad("0" \o s, width)

FormatHex(n, width) == ZeroPad(ToHex(n), width)

(***************************************************************************)
(* str(uuid.uuid4()): 128 random bits with the version and variant bits    *)
(* forced, rendered as 32 hex digits in groups 8-4-4-4-12.  The random     *)
(* bits are a function of the number of the draw, so that two draws give   *)
(* two identifiers (uuid4 values collide with negligible probability).     *)
(***************************************************************************)
RandomNibble(draw, i) == (7 * draw + 3 * i) % 16

Uuid4Nibble(draw, i) ==
    IF i = 13 THEN 4
    ELSE IF i = 17 THEN 8 + (RandomNibble(draw, i) % 4)
    ELSE RandomNibble(draw, i)

RECURSIVE Uuid4Hex(_, _)
Uuid4Hex(draw, i) ==
    IF i = 0 THEN "" ELSE Uuid4Hex(draw, i - 1) \o HexChar(Uuid4Nibble(draw, i))

uuid4_str(draw) ==
    LET hex == Uuid4Hex(draw, 32)
    IN  SubSeq(hex, 1, 8) \o "-" \o SubSeq(hex, 9, 12) \o "-" \o
        SubSeq(hex, 13, 16) \o "-" \o SubSeq(hex, 17, 20) \o "-" \o
        SubSeq(hex, 21, 32)

\* s[:n]
Prefix(s, n) == SubSeq(s, 1, IF n < Len(s) THEN n ELSE Len(s))

(***************************************************************************)
(* Execution contexts.  flask.g is bound to the application context of the *)
(* request the calling thread serves; code that runs outside any request   *)
(* (module import, __main__, the signal handler) has no context.           *)
(***************************************************************************)
Reqs == 1 .. MaxInFlight
NoCtx == 0
Ctxs == Reqs \cup {NoCtx}

Unbound == [bound |-> FALSE, attrs |-> EmptyDict]
FreshG == [bound |-> TRUE, attrs |-> EmptyDict]

VARIABLES
    proc,        \* phase of the process: import, main, serving, exited, failed
    service_up,  \* the SERVICE_UP gauge
    pc,          \* pc[r]: idle, handler, after, done
    request,     \* request[r]: the request served in slot r
    g,           \* g[slot]: flask.g of the application context in that slot
    response,    \* response[r]: the response object of request r
    unhandled,   \* unhandled[r]: request r's handler raised
    stderr,      \* the log sink: what the logger's StreamHandler wrote, in order
    made,        \* the calls made to the logger's entry points, in order
    api_calls,   \* number of those made by code other than app.py's call sites
    uuid_draws,  \* number of uuid.uuid4() calls so far
    issued,      \* issued[r]: what r's before_request generated and stored
    now,         \* time.time(), in ticks
    REQUEST_COUNT,    \* the counter: a bag of (method, endpoint, status) labels
    REQUEST_DURATION  \* the histogram: count and sum per (method, endpoint)

vars == <<proc, service_up, pc, request, g, response, unhandled, stderr,
          made, api_calls, uuid_draws, issued, now, REQUEST_COUNT,
          REQUEST_DURATION>>


(***************************************************************************)
(* JSONFormatter.format and the logging library around it.                 *)
(*                                                                         *)
(* A step that can raise returns [exc, ...]: exc = "" when it returned,    *)
(* and the name of the exception otherwise.                                *)
(***************************************************************************)
\* Attribute access on the flask.g proxy: RuntimeError when no application
\* context is bound, AttributeError when the attribute was never set.
g_getattr(gv, name) ==
    IF ~gv.bound THEN [exc |-> "RuntimeError", v |-> PyNone]
    ELSE IF name \in DOMAIN gv.attrs THEN [exc |-> "", v |-> gv.attrs[name]]
    ELSE [exc |-> "AttributeError", v |-> PyNone]

\* Mutant of g_hasattr: the attribute is never found.
g_hasattr_never(gv, name) == [exc |-> "", v |-> FALSE]

\* hasattr(g, name): False on AttributeError; other exceptions pass through.
g_hasattr(gv, name) ==
    LET r == g_getattr(gv, name)
    IN  IF r.exc = "AttributeError" THEN [exc |-> "", v |-> FALSE]
        ELSE [exc |-> r.exc, v |-> r.exc = ""]

\* Mutant of CorrelationExcept: the block catches AttributeError instead.
CorrelationExceptAttr(exc) == exc = "AttributeError"

\* Which exceptions the try block around the correlation lookup swallows.
CorrelationExcept(exc) == exc = "RuntimeError"

\* The correlation-id block of format: the fields it adds to log_entry.
correlation_fields(gv) ==
    LET h == g_hasattr(gv, "correlation_id")
    IN  IF h.exc # ""
        THEN [exc |-> IF CorrelationExcept(h.exc) THEN "" ELSE h.exc,
              fields |-> EmptyDict]
        ELSE [exc |-> "",
              fields |-> IF h.v
                         THEN "correlation_id" :> g_getattr(gv, "correlation_id").v
                         ELSE EmptyDict]

\* The span a log call finds with trace.get_current_span(): recording inside
\* an instrumented request, the invalid span (ids 0) elsewhere; the lookup
\* itself may fail.
InvalidSpan == [state |-> "invalid", trace_id |-> 0, span_id |-> 0]
BrokenSpan == [state |-> "raises", trace_id |-> 0, span_id |-> 0]
RecordingSpan(r) == [state |-> "recording", trace_id |-> 4096 + r, span_id |-> 256 + r]
SpanOf(ctx) == IF ctx = NoCtx THEN InvalidSpan ELSE RecordingSpan(ctx)

\* The trace-id block of format: every exception is swallowed.
trace_fields(span) ==
    IF span.state = "recording"
    THEN ("trace_id" :> S(FormatHex(span.trace_id, 32))) @@
         ("span_id" :> S(FormatHex(span.span_id, 16)))
    ELSE EmptyDict

\* json.dumps of a dict: TypeError when a value has no JSON encoding.
json_dumps(d) ==
    IF \A k \in DOMAIN d : d[k].t # "object"
    THEN [exc |-> "", line |-> d]
    ELSE [exc |-> "TypeError", line |-> EmptyDict]

\* datetime.utcnow().isoformat() + "Z"
Timestamp(t) == ToString(t) \o "Z"

\* JSONFormatter.format(record) in the environment env of the calling code:
\* env.g is what flask.g resolves to, env.span the current span, env.now the
\* clock.
format(record, env) ==
    LET log_entry == ("timestamp" :> S(Timestamp(env.now))) @@
                     ("level" :> S(record.levelname)) @@
                     ("message" :> S(record.msg)) @@
                     ("service" :> S("sample-service")) @@
                     ("version" :> S("1.0.0"))
        c == correlation_fields(env.g)
        e1 == Update(Update(log_entry, c.fields), trace_fields(env.span))
        e2 == IF record.has_extra_fields THEN Update(e1, record.extra_fields) ELSE e1
    IN  IF c.exc # "" THEN [exc |-> c.exc, line |-> EmptyDict] ELSE json_dumps(e2)

\* logging.StreamHandler.emit: write the formatted line; when format raised,
\* handleError reports the failure on sys.stderr and the line is not written.
\* Each entry keeps the context and the number of the call that produced it.
emit(stream, record, env) ==
    LET f == format(record, env)
    IN  Append(stream,
               IF f.exc = ""
               THEN [kind |-> "json", obj |-> f.line, ctx |-> env.ctx, call |-> record.call]
               ELSE [kind |-> "logging_error", obj |-> EmptyDict, ctx |-> env.ctx,
                     call |-> record.call])

LevelNo(level) ==
    CASE level = "DEBUG" -> 10
      [] level = "INFO" -> 20
      [] level = "WARNING" -> 30
      [] level = "ERROR" -> 40

\* self.logger.setLevel(logging.INFO)
LoggerLevel == "INFO"

\* The body shared by info, warning, error and debug: build `extra` and hand
\* the record to the logger, which drops it below its level.
\* st = [stream, made] is the sink and the list of the calls made so far.
logger_log(st, env, level, message, kwargs) ==
    LET record == [levelname |-> level, msg |-> message,
                   has_extra_fields |-> DOMAIN kwargs # {},
                   extra_fields |-> kwargs, call |-> Len(st.made) + 1]
    IN  [made |-> Append(st.made, [level |-> level, ctx |-> env.ctx,
                                   keys |-> DOMAIN kwargs]),
         stream |-> IF LevelNo(level) >= LevelNo(LoggerLevel)
                    THEN emit(st.stream, record, env)
                    ELSE st.stream]

info(st, env, message, kwargs) == logger_log(st, env, "INFO", message, kwargs)
warning(st, env, message, kwargs) == logger_log(st, env, "WARNING", message, kwargs)
error(st, env, message, kwargs) == logger_log(st, env, "ERROR", message, kwargs)
debug(st, env, message, kwargs) == logger_log(st, env, "DEBUG", message, kwargs)

(***************************************************************************)
(* Routing: the url map of the @app.route decorators.                      *)
(***************************************************************************)
Digits == "0123456789"
IsDigit(c) == \E d \in 0 .. 9 : SubSeq(Digits, d + 1, d + 1) = c
DigitVal(c) == CHOOSE d \in 0 .. 9 : SubSeq(Digits, d + 1, d + 1) = c

RECURSIVE AllDigits(_)
AllDigits(s) ==
    IF Len(s) = 0 THEN TRUE
    ELSE IsDigit(SubSeq(s, 1, 1)) /\ AllDigits(SubSeq(s, 2, Len(s)))

\* int(s) for a string of digits
RECURSIVE ParseInt(_)
ParseInt(s) ==
    IF Len(s) = 0 THEN 0
    ELSE 10 * ParseInt(SubSeq(s, 1, Len(s) - 1)) + DigitVal(SubSeq(s, Len(s), Len(s)))

UsersPrefix == "/api/users/"

\* The <int:user_id> converter matches one or more digits (no sign).
match_request(path) ==
    LET rest == SubSeq(path, Len(UsersPrefix) + 1, Len(path))
        rule(name) == [endpoint |-> name, user_id |-> 0]
    IN  CASE path = "/" -> rule("home")
          [] path = "/health" -> rule("health")
          [] path = "/ready" -> rule("ready")
          [] path = "/metrics" -> rule("metrics")
          [] path = "/api/users" -> rule("list_users")
          [] path = "/api/slow" -> rule("slow_endpoint")
          [] path = "/api/error" -> rule("error_endpoint")
          [] path = "/api/flaky" -> rule("flaky_endpoint")
          [] OTHER ->
               IF /\ Len(path) > Len(UsersPrefix)
                  /\ SubSeq(path, 1, Len(UsersPrefix)) = UsersPrefix
                  /\ AllDigits(rest)
               THEN [endpoint |-> "get_user", user_id |-> ParseInt(rest)]
               ELSE rule("NotFound")


(***************************************************************************)
(* Inputs: the requests clients send and the values the random sources     *)
(* give.                                                                   *)
(***************************************************************************)
\* if user_id > 1000
UserIdLimit == 1000
UserIdSamples == {1, UserIdLimit, UserIdLimit + 1, 1500}
UserPath(n) == UsersPrefix \o ToString(n)

Paths == {"/", "/health", "/ready", "/metrics", "/api/users", "/api/slow",
          "/api/error", "/api/flaky", "/nope", "/api/users/-1"}
         \cup {UserPath(n) : n \in UserIdSamples}

\* random.random(), in thousandths: both sides of each threshold.
SlowChance == 100
ErrorChance == 300
SlowRolls == {SlowChance - 1, SlowChance}
ErrorRolls == {ErrorChance - 1, ErrorChance}
\* random.randint(3, 10): the two ends of the range.
UserCounts == {3, 10}
\* The sleeps of the handlers, in clock ticks.
SleepTicks == 1

slow_types == <<"database_query", "external_api_call", "heavy_computation", "file_processing">>
error_types == <<"database_timeout", "external_service_down", "memory_limit", "invalid_state">>
flaky_error_types == <<"network_timeout", "service_unavailable", "rate_limit", "circuit_breaker">>

\* str(uuid.uuid4())[:8]
ErrorIdLen == 8
\* Mutant of error_id_of: the slice is one character longer.
error_id_long(draw) == Prefix(uuid4_str(draw), ErrorIdLen + 1)

error_id_of(draw) == Prefix(uuid4_str(draw), ErrorIdLen)

(***************************************************************************)
(* Responses.                                                              *)
(***************************************************************************)
NoResponse == [status_code |-> 0, body |-> PyNone, headers |-> EmptyDict]

make_response(body, status, content_type) ==
    [status_code |-> status, body |-> body,
     headers |-> ("Content-Type" :> content_type)]

\* jsonify(d), status
jsonify(d, status) == make_response(D(d), status, "application/json")

\* response.content_length or 0, measured in top-level entries of the body
content_length(resp) ==
    IF resp.body.t = "dict" THEN Cardinality(DOMAIN resp.body.v) ELSE 1

(***************************************************************************)
(* The state the actions share.                                            *)
(***************************************************************************)
\* Mutant of GSlot: one g for the whole process.
GSlotShared(r) == 1

\* The slot of flask.g a request's code reads and writes: its own context.
GSlot(r) == r

\* What flask.g resolves to for code running in context ctx.
G(store, ctx) == IF ctx = NoCtx THEN Unbound ELSE store[GSlot(ctx)]

Env(ctx, gv, t) == [g |-> gv, span |-> SpanOf(ctx), now |-> t, ctx |-> ctx]

Sink == [stream |-> stderr, made |-> made]
Write(st) == stderr' = st.stream /\ made' = st.made

Init ==
    /\ proc = "import"
    /\ service_up = 0
    /\ pc = [r \in Reqs |-> "idle"]
    /\ request = [r \in Reqs |-> [method |-> "GET", path |-> "/"]]
    /\ g = [r \in Reqs |-> Unbound]
    /\ response = [r \in Reqs |-> NoResponse]
    /\ unhandled = [r \in Reqs |-> FALSE]
    /\ stderr = <<>>
    /\ made = <<>>
    /\ api_calls = 0
    /\ uuid_draws = 0
    /\ issued = [r \in Reqs |-> [correlation_id |-> "", start_time |-> 0]]
    /\ now = 0
    /\ REQUEST_COUNT = EmptyBag
    /\ REQUEST_DURATION = <<>>

(***************************************************************************)
(* The process: module import, __main__, the signal handler.               *)
(***************************************************************************)
OtlpEndpoint == "http://collector:4318"

\* Module import: setup_tracing() logs one line on one of its three
\* branches, then SERVICE_UP.set(1).
OtlpBranches == {"configured", "exporter_failed", "unset"}

setup_tracing(branch) ==
    /\ proc = "import"
    /\   LET env == Env(NoCtx, G(g, NoCtx), now)
         IN  Write(CASE branch = "configured" ->
                          info(Sink, env, "OTLP tracing configured: " \o OtlpEndpoint, EmptyDict)
                     [] branch = "exporter_failed" ->
                          warning(Sink, env, "Failed to configure OTLP exporter: ImportError", EmptyDict)
                     [] branch = "unset" ->
                          info(Sink, env, "No OTEL_EXPORTER_OTLP_ENDPOINT configured, tracing disabled", EmptyDict))
    /\ service_up' = 1
    /\ proc' = "main"
    /\ UNCHANGED <<pc, request, g, response, unhandled, api_calls, uuid_draws, issued, now,
                   REQUEST_COUNT, REQUEST_DURATION>>

\* if __name__ == '__main__': log the start, then app.run, which serves or
\* fails to start (the failure is logged and raised again).
main(started) ==
    /\ proc = "main"
    /\   LET env == Env(NoCtx, G(g, NoCtx), now)
             s1 == info(Sink, env, "Starting sample service",
                        ("service" :> S("sample-service")) @@ ("version" :> S("1.0.0")) @@
                        ("port" :> N(8080)) @@ ("debug" :> B(FALSE)) @@
                        ("environment" :> S("production")))
             s2 == error(s1, env, "Failed to start service",
                         ("service" :> S("sample-service")) @@
                         ("error" :> S("Address already in use")) @@
                         ("error_type" :> S("OSError")))
         IN  /\ Write(IF started THEN s1 ELSE s2)
             /\ proc' = IF started THEN "serving" ELSE "failed"
    /\ UNCHANGED <<service_up, pc, request, g, response, unhandled, api_calls, uuid_draws, issued, now,
                   REQUEST_COUNT, REQUEST_DURATION>>

\* signal_handler(sig, frame), run by the main thread, which serves no request.
Signals == {"SIGTERM", "SIGINT"}

signal_handler(sig) ==
    /\ proc = "serving"
    /\   LET env == Env(NoCtx, G(g, NoCtx), now)
             s1 == info(Sink, env, "Shutdown signal received",
                        ("signal" :> S(sig)) @@ ("graceful" :> B(TRUE)))
             s2 == info(s1, env, "Sample service shutting down gracefully",
                        ("service" :> S("sample-service")) @@ ("final_message" :> B(TRUE)))
         IN  Write(s2)
    /\ service_up' = 0
    /\ proc' = "exited"
    /\ UNCHANGED <<pc, request, g, response, unhandled, api_calls, uuid_draws, issued, now,
                   REQUEST_COUNT, REQUEST_DURATION>>


(***************************************************************************)
(* The request lifecycle hooks.                                            *)
(***************************************************************************)
\* g.<name> = value
g_setattr(gv, name, value) == [gv EXCEPT !.attrs = (name :> value) @@ @]

\* round(seconds * 1000, 2)
Millis(ticks) == N(ticks * 1000)

\* @app.before_request, run in the freshly pushed context of request r.
before_request(r, path) ==
    /\ proc = "serving"
    /\ pc[r] = "idle"
    /\   LET cid == uuid4_str(uuid_draws + 1)
             gv == g_setattr(g_setattr(FreshG, "correlation_id", S(cid)),
                             "start_time", N(now))
             store == [g EXCEPT ![GSlot(r)] = gv]
         IN  /\ request' = [request EXCEPT ![r] = [method |-> "GET", path |-> path]]
             /\ g' = store
             /\ issued' = [issued EXCEPT ![r] = [correlation_id |-> cid, start_time |-> now]]
             /\ Write(info(Sink, Env(r, G(store, r), now), "Request started",
                           ("method" :> S("GET")) @@ ("path" :> S(path)) @@
                           ("remote_addr" :> S("127.0.0.1")) @@
                           ("user_agent" :> S(""))))
    /\ uuid_draws' = uuid_draws + 1
    /\ pc' = [pc EXCEPT ![r] = "handler"]
    /\ UNCHANGED <<proc, service_up, response, unhandled, api_calls, now,
                   REQUEST_COUNT, REQUEST_DURATION>>

\* Mutant of after_request_response: the header is not set.
after_request_response_bare(resp, gv) == resp

\* Mutant of after_request_response: the status is overwritten as well.
after_request_response_ok(resp, gv) ==
    [resp EXCEPT !.headers =
                    ("X-Correlation-ID" :> g_getattr(gv, "correlation_id").v.v) @@ @,
                 !.status_code = 200]

\* What after_request does to the response: set the header, nothing else.
after_request_response(resp, gv) ==
    [resp EXCEPT !.headers =
        ("X-Correlation-ID" :> g_getattr(gv, "correlation_id").v.v) @@ @]

\* @app.after_request: Flask runs it on every response, the one it builds
\* for an unhandled exception included.
after_request(r) ==
    /\ proc = "serving"
    /\ pc[r] = "after"
    /\ LET gv == G(g, r)
           duration == now - g_getattr(gv, "start_time").v.v
       IN  /\ Write(info(Sink, Env(r, gv, now), "Request completed",
                         ("method" :> S(request[r].method)) @@
                         ("path" :> S(request[r].path)) @@
                         ("status_code" :> N(response[r].status_code)) @@
                         ("duration_ms" :> Millis(duration)) @@
                         ("response_size" :> N(content_length(response[r])))))
           /\ response' = [response EXCEPT ![r] = after_request_response(@, gv)]
    /\ pc' = [pc EXCEPT ![r] = "done"]
    /\ UNCHANGED <<proc, service_up, request, g, unhandled, api_calls, uuid_draws, issued, now,
                   REQUEST_COUNT, REQUEST_DURATION>>

(***************************************************************************)
(* The route handlers.  Each is one step: the handler's log calls, its     *)
(* sleeps and the response it returns.                                     *)
(***************************************************************************)
Dispatched(r, endpoint) ==
    /\ proc = "serving"
    /\ pc[r] = "handler"
    /\ match_request(request[r].path).endpoint = endpoint

\* The handler of r returns resp at time t, having logged up to st.
Return(r, resp, st, t) ==
    /\ response' = [response EXCEPT ![r] = resp]
    /\ Write(st)
    /\ now' = t
    /\ pc' = [pc EXCEPT ![r] = "after"]
    /\ UNCHANGED <<proc, service_up, request, g, unhandled, api_calls, issued>>

\* Counter.labels(...).inc(): one more sample under these labels.
inc(counter, labels) == counter (+) SetToBag({labels})

\* Histogram.labels(...).observe(amount): one more observation under these
\* labels, its amount added to their sum.
observe(histogram, labels, amount) ==
    IF labels \in DOMAIN histogram
    THEN [histogram EXCEPT ![labels] = [count |-> @.count + 1, sum |-> @.sum + amount]]
    ELSE (labels :> [count |-> 1, sum |-> amount]) @@ histogram

\* The two metric lines of a handler:
\*   REQUEST_DURATION.labels(method=, endpoint=).observe(duration)
\*   REQUEST_COUNT.labels(method=, endpoint=, status=).inc()
Record(method, endpoint, status, duration) ==
    /\ REQUEST_DURATION' = observe(REQUEST_DURATION,
                                   [method |-> method, endpoint |-> endpoint], duration)
    /\ REQUEST_COUNT' = inc(REQUEST_COUNT,
                            [method |-> method, endpoint |-> endpoint, status |-> status])

StatusBody(status) == ("status" :> S(status)) @@ ("service" :> S("sample-service"))

health(r) ==
    /\ Dispatched(r, "health")
    /\ Return(r, jsonify(StatusBody("healthy"), 200), Sink, now)
    /\ UNCHANGED <<uuid_draws, REQUEST_COUNT, REQUEST_DURATION>>

ready(r) ==
    /\ Dispatched(r, "ready")
    /\ Return(r, jsonify(StatusBody("ready"), 200), Sink, now)
    /\ UNCHANGED <<uuid_draws, REQUEST_COUNT, REQUEST_DURATION>>

metrics(r) ==
    /\ Dispatched(r, "metrics")
    /\ Return(r, make_response([t |-> "bytes", v |-> "generate_latest()"], 200,
                               "text/plain; charset=utf-8"), Sink, now)
    /\ UNCHANGED <<uuid_draws, REQUEST_COUNT, REQUEST_DURATION>>

home(r) ==
    /\ Dispatched(r, "home")
    /\ Return(r, jsonify(("message" :> S("Welcome to the Sample Service!")) @@
                         ("version" :> S("1.0.0")) @@
                         ("service" :> S("sample-service")) @@
                         ("endpoints" :> D(("health" :> S("/health")) @@
                                           ("ready" :> S("/ready")) @@
                                           ("metrics" :> S("/metrics")) @@
                                           ("users" :> S("/api/users")) @@
                                           ("slow" :> S("/api/slow")) @@
                                           ("error" :> S("/api/error")))),
                         200), Sink, now)
    /\ Record(request[r].method, "/", "200", 0)
    /\ UNCHANGED uuid_draws

UserName(i) == "User " \o ToString(i)
UserEmail(i) == "user" \o ToString(i) \o "@example.com"

list_users(r) ==
    /\ Dispatched(r, "list_users")
    /\ \E roll \in SlowRolls, user_count \in UserCounts :
         LET gv == G(g, r)
             processing_time == SleepTicks
             is_slow == roll < SlowChance
             slow_time == SleepTicks
             t1 == now + processing_time
             t2 == IF is_slow THEN t1 + slow_time ELSE t1
             users == [i \in 1 .. (user_count - 1) |->
                          D(("id" :> N(i)) @@ ("name" :> S(UserName(i))) @@
                            ("email" :> S(UserEmail(i))))]
             duration == t2 - now
             s1 == info(Sink, Env(r, gv, now), "Fetching user list",
                        "operation" :> S("list_users"))
             s2 == IF is_slow
                   THEN warning(s1, Env(r, gv, t2), "Slow response detected",
                                ("operation" :> S("list_users")) @@
                                ("slow_duration_ms" :> Millis(slow_time)) @@
                                ("reason" :> S("database_slow_query")))
                   ELSE s1
             s3 == info(s2, Env(r, gv, t2), "User list retrieved successfully",
                        ("operation" :> S("list_users")) @@
                        ("user_count" :> N(Len(users))) @@
                        ("processing_time_ms" :> Millis(processing_time)) @@
                        ("total_duration_ms" :> Millis(duration)) @@
                        ("was_slow" :> B(is_slow)))
         IN  /\ Return(r, jsonify("users" :> L(users), 200), s3, t2)
             /\ Record(request[r].method, "/api/users", "200", duration)
    /\ UNCHANGED uuid_draws

\* Mutant of user_not_found: the limit itself is refused.
user_not_found_from_limit(user_id) == user_id >= UserIdLimit

\* Mutant of get_user_metric_endpoint: the handler's endpoint variable, the
\* path with the id in it, is used as the label.
get_user_endpoint(user_id) == "/api/users/" \o ToString(user_id)

\* The endpoint label get_user passes to both metrics: the template.
get_user_metric_endpoint(user_id) == "/api/users/{id}"

\* The branch test of get_user.
user_not_found(user_id) == user_id > UserIdLimit

get_user(r) ==
    /\ Dispatched(r, "get_user")
    /\ LET gv == G(g, r)
           user_id == match_request(request[r].path).user_id
           db_lookup_time == SleepTicks
           t1 == now + db_lookup_time
           duration == t1 - now
           s1 == info(Sink, Env(r, gv, now), "Fetching user by ID",
                      ("operation" :> S("get_user")) @@ ("user_id" :> N(user_id)))
           s2 == debug(s1, Env(r, gv, t1), "Database lookup completed",
                       ("operation" :> S("get_user")) @@ ("user_id" :> N(user_id)) @@
                       ("db_duration_ms" :> Millis(db_lookup_time)))
           s404 == warning(s2, Env(r, gv, t1), "User not found",
                           ("operation" :> S("get_user")) @@ ("user_id" :> N(user_id)) @@
                           ("error_type" :> S("not_found")) @@
                           ("duration_ms" :> Millis(duration)))
           user == ("id" :> N(user_id)) @@ ("name" :> S(UserName(user_id))) @@
                   ("email" :> S(UserEmail(user_id))) @@
                   ("created_at" :> S("2023-01-01T00:00:00Z"))
           s200 == info(s2, Env(r, gv, t1), "User retrieved successfully",
                        ("operation" :> S("get_user")) @@ ("user_id" :> N(user_id)) @@
                        ("user_email" :> user["email"]) @@
                        ("db_duration_ms" :> Millis(db_lookup_time)) @@
                        ("total_duration_ms" :> Millis(duration)))
       IN  IF user_not_found(user_id)
           THEN /\ Return(r, jsonify("error" :> S("User not found"), 404), s404, t1)
                /\ Record(request[r].method, get_user_metric_endpoint(user_id), "404", duration)
           ELSE /\ Return(r, jsonify(user, 200), s200, t1)
                /\ Record(request[r].method, get_user_metric_endpoint(user_id), "200", duration)
    /\ UNCHANGED uuid_draws

slow_endpoint(r) ==
    /\ Dispatched(r, "slow_endpoint")
    /\ \E i \in 1 .. Len(slow_types) :
         LET gv == G(g, r)
             slow_time == SleepTicks
             slow_type == slow_types[i]
             t1 == now + slow_time
             duration == t1 - now
             s1 == info(Sink, Env(r, gv, now), "Starting slow operation",
                        ("operation" :> S("slow_endpoint")) @@
                        ("expected_duration_ms" :> Millis(slow_time)) @@
                        ("operation_type" :> S("heavy_computation")))
             s2 == info(s1, Env(r, gv, t1), "Slow operation completed",
                        ("operation" :> S("slow_endpoint")) @@
                        ("operation_type" :> S(slow_type)) @@
                        ("actual_duration_ms" :> Millis(duration)) @@
                        ("slow_duration_ms" :> Millis(slow_time)))
         IN  /\ Return(r, jsonify(("message" :> S("This is a slow endpoint for testing monitoring")) @@
                                  ("processing_time" :> N(slow_time)) @@
                                  ("operation_type" :> S(slow_type)), 200), s2, t1)
             /\ Record(request[r].method, "/api/slow", "200", duration)
    /\ UNCHANGED uuid_draws


error_endpoint(r) ==
    /\ Dispatched(r, "error_endpoint")
    /\ \E i \in 1 .. Len(error_types) :
         LET gv == G(g, r)
             error_type == error_types[i]
             error_id == error_id_of(uuid_draws + 1)
             s1 == error(Sink, Env(r, gv, now), "Predictable error endpoint triggered",
                         ("operation" :> S("error_endpoint")) @@
                         ("error_type" :> S(error_type)) @@
                         ("error_id" :> S(error_id)) @@
                         ("always_fails" :> B(TRUE)) @@
                         ("duration_ms" :> Millis(0)) @@
                         ("stack_trace" :> B(TRUE)))
         IN  /\ Return(r, jsonify(("error" :> S("Internal server error")) @@
                                  ("message" :> S("This endpoint always returns an error for testing")) @@
                                  ("error_type" :> S(error_type)) @@
                                  ("error_id" :> S(error_id)), 500), s1, now)
             /\ Record(request[r].method, "/api/error", "500", 0)
    /\ uuid_draws' = uuid_draws + 1

flaky_endpoint(r) ==
    /\ Dispatched(r, "flaky_endpoint")
    /\ \E error_chance \in ErrorRolls, i \in 1 .. Len(flaky_error_types) :
         LET gv == G(g, r)
             will_error == error_chance < ErrorChance
             error_type == flaky_error_types[i]
             error_id == error_id_of(uuid_draws + 1)
             s1 == info(Sink, Env(r, gv, now), "Processing flaky endpoint",
                        ("operation" :> S("flaky_endpoint")) @@
                        ("error_probability" :> N(ErrorChance)) @@
                        ("random_value" :> N(error_chance)))
             serr == error(s1, Env(r, gv, now), "Flaky endpoint error occurred",
                           ("operation" :> S("flaky_endpoint")) @@
                           ("error_type" :> S(error_type)) @@
                           ("error_id" :> S(error_id)) @@
                           ("duration_ms" :> Millis(0)) @@
                           ("stack_trace" :> B(TRUE)))
             sok == info(s1, Env(r, gv, now), "Flaky endpoint succeeded",
                         ("operation" :> S("flaky_endpoint")) @@
                         ("outcome" :> S("success")) @@
                         ("duration_ms" :> Millis(0)))
         IN  IF will_error
             THEN /\ Return(r, jsonify(("error" :> S("Service temporarily unavailable")) @@
                                       ("message" :> S("This endpoint fails intermittently for realistic testing")) @@
                                       ("error_type" :> S(error_type)) @@
                                       ("error_id" :> S(error_id)), 500), serr, now)
                  /\ Record(request[r].method, "/api/flaky", "500", 0)
                  /\ uuid_draws' = uuid_draws + 1
             ELSE /\ i = 1
                  /\ Return(r, jsonify("message" :> S("Success! The flaky endpoint worked this time."),
                                       200), sok, now)
                  /\ Record(request[r].method, "/api/flaky", "200", 0)
                  /\ UNCHANGED uuid_draws

\* No rule of the url map matches: Flask answers with werkzeug's NotFound.
not_found(r) ==
    /\ Dispatched(r, "NotFound")
    /\ Return(r, make_response(S("404 Not Found"), 404, "text/html; charset=utf-8"),
              Sink, now)
    /\ UNCHANGED <<uuid_draws, REQUEST_COUNT, REQUEST_DURATION>>

\* A view function raises an exception nothing handles, before it reaches
\* its metric lines: Flask answers with its InternalServerError response.
handler_raises(r) ==
    /\ proc = "serving"
    /\ pc[r] = "handler"
    /\ match_request(request[r].path).endpoint # "NotFound"
    /\ response' = [response EXCEPT ![r] =
                       make_response(S("500 Internal Server Error"), 500,
                                     "text/html; charset=utf-8")]
    /\ unhandled' = [unhandled EXCEPT ![r] = TRUE]
    /\ pc' = [pc EXCEPT ![r] = "after"]
    /\ UNCHANGED <<proc, service_up, request, g, stderr, made, api_calls,
                   uuid_draws, issued, now, REQUEST_COUNT, REQUEST_DURATION>>

(***************************************************************************)
(* A call of the logger's entry points by any other code, inside a request *)
(* (between its before_request and its after_request) or outside any       *)
(* request, with any level and any keyword fields.                         *)
(***************************************************************************)
Levels == {"DEBUG", "INFO", "WARNING", "ERROR"}

ApiFields == {EmptyDict,
              "operation" :> S("audit"),
              "correlation_id" :> S("caller-chosen"),
              "payload" :> Obj("set")}

log_call(ctx) ==
    /\ proc = "serving"
    /\ ctx # NoCtx => pc[ctx] = "handler"
    /\ api_calls < MaxLogCalls
    /\ \E level \in Levels, kwargs \in ApiFields, span \in {SpanOf(ctx), BrokenSpan} :
         LET env == [Env(ctx, G(g, ctx), now) EXCEPT !.span = span]
         IN  Write(CASE level = "DEBUG" -> debug(Sink, env, "message", kwargs)
                     [] level = "INFO" -> info(Sink, env, "message", kwargs)
                     [] level = "WARNING" -> warning(Sink, env, "message", kwargs)
                     [] level = "ERROR" -> error(Sink, env, "message", kwargs))
    /\ api_calls' = api_calls + 1
    /\ UNCHANGED <<proc, service_up, pc, request, g, response, unhandled,
                   uuid_draws, issued, now, REQUEST_COUNT, REQUEST_DURATION>>

(***************************************************************************)
(* The specification.                                                      *)
(***************************************************************************)
\* No other request has been accepted: the service serves r alone.
Alone(r) == \A q \in Reqs \ {r} : pc[q] = "idle"

\* The service from its import to its exit, serving one request.
Next ==
    \/ \E branch \in OtlpBranches : setup_tracing(branch)
    \/ \E started \in BOOLEAN : main(started)
    \/ \E sig \in Signals : signal_handler(sig)
    \/ \E r \in Reqs, path \in Paths : Alone(r) /\ before_request(r, path)
    \/ \E r \in Reqs : health(r)
    \/ \E r \in Reqs : ready(r)
    \/ \E r \in Reqs : metrics(r)
    \/ \E r \in Reqs : home(r)
    \/ \E r \in Reqs : list_users(r)
    \/ \E r \in Reqs : get_user(r)
    \/ \E r \in Reqs : slow_endpoint(r)
    \/ \E r \in Reqs : error_endpoint(r)
    \/ \E r \in Reqs : flaky_endpoint(r)
    \/ \E r \in Reqs : not_found(r)
    \/ \E r \in Reqs : handler_raises(r)
    \/ \E r \in Reqs : after_request(r)

Spec == Init /\ [][Next]_vars

\* The threaded server: up to MaxInFlight requests in flight, their hooks
\* and handlers interleaved in any order.
ThreadedPaths == {"/health", UserPath(1)}

NextThreaded ==
    \/ setup_tracing("unset")
    \/ main(TRUE)
    \/ \E r \in Reqs, path \in ThreadedPaths : before_request(r, path)
    \/ \E r \in Reqs : health(r)
    \/ \E r \in Reqs : get_user(r)
    \/ \E r \in Reqs : after_request(r)

SpecThreaded == Init /\ [][NextThreaded]_vars


\* The logger as a component: the service's own call sites at the four
\* levels, and calls of the entry points by other code with any level and
\* any fields, inside a request and outside any request.
LoggerPaths == {UserPath(1), UserPath(1500), "/api/error"}

NextLogger ==
    \/ setup_tracing("unset")
    \/ main(TRUE)
    \/ \E r \in Reqs, path \in LoggerPaths : Alone(r) /\ before_request(r, path)
    \/ \E r \in Reqs : get_user(r)
    \/ \E r \in Reqs : error_endpoint(r)
    \/ \E r \in Reqs : after_request(r)
    \/ \E ctx \in Ctxs : log_call(ctx)

SpecLogger == Init /\ [][NextLogger]_vars


(***************************************************************************)
(* Vocabulary of the properties.                                           *)
(***************************************************************************)
\* The JSON lines on the sink.
JsonLines == {i \in DOMAIN stderr : stderr[i].kind = "json"}
\* The JSON lines the call number c produced.
LinesOf(c) == {i \in JsonLines : stderr[i].call = c}
\* Request r has passed its before_request hook.
Started(r) == pc[r] # "idle"
\* The handler of r returned a response (it did not raise).
Returned(r) == pc[r] \in {"after", "done"} /\ ~unhandled[r]
\* The response of r is the one the service sends: after_request is over.
Sent(r) == pc[r] = "done"
EndpointOf(r) == match_request(request[r].path).endpoint
\* The line carries the correlation identifier issued to request r.
CarriesIssued(i, r) ==
    /\ "correlation_id" \in DOMAIN stderr[i].obj
    /\ stderr[i].obj["correlation_id"] = S(issued[r].correlation_id)

(***************************************************************************)
(* C1 as stated: every log line emitted in the context of a request,       *)
(* whatever the fields of the call, carries the correlation identifier     *)
(* that request's before_request stored.  Refuted by a call whose fields   *)
(* name correlation_id: the merge of the fields overwrites it.             *)
(***************************************************************************)
C1_EveryLineCarriesIssuedId ==
    \A i \in JsonLines :
        stderr[i].ctx # NoCtx => CarriesIssued(i, stderr[i].ctx)

(***************************************************************************)
(* C1 amended: every log line emitted in the context of a request by a     *)
(* call whose fields do not name correlation_id carries the identifier     *)
(* that request's before_request stored, the same on all those lines.      *)
(***************************************************************************)
C1_LinesCarryIssuedIdUnlessOverridden ==
    \A i \in JsonLines :
        (stderr[i].ctx # NoCtx /\ "correlation_id" \notin made[stderr[i].call].keys)
            => CarriesIssued(i, stderr[i].ctx)

\* A request is over, its hooks, its handler and another caller have logged
\* in its context, at the levels INFO and WARNING at least.
C1_Witness ==
    \E r \in Reqs :
        /\ Sent(r)
        /\ \E i, j, k \in JsonLines :
              /\ stderr[i].ctx = r /\ stderr[i].obj["message"] = S("Request started")
              /\ stderr[j].ctx = r /\ stderr[j].obj["message"] = S("message")
              /\ stderr[j].obj["level"] = S("WARNING")
              /\ stderr[k].ctx = r /\ stderr[k].obj["message"] = S("Request completed")

(***************************************************************************)
(* C2: every response the service sends carries a non-empty                *)
(* X-Correlation-ID header whose value is the identifier the request's     *)
(* before_request generated, whatever the route and the outcome.           *)
(***************************************************************************)
C2_HeaderOnEveryResponse ==
    \A r \in Reqs :
        Sent(r) =>
            /\ "X-Correlation-ID" \in DOMAIN response[r].headers
            /\ response[r].headers["X-Correlation-ID"] # ""
            /\ response[r].headers["X-Correlation-ID"] = issued[r].correlation_id

\* The response sent for a handler that raised.
C2_Witness ==
    \E r \in Reqs :
        /\ Sent(r) /\ unhandled[r] /\ response[r].status_code = 500
        /\ Len(response[r].headers["X-Correlation-ID"]) = 36

(***************************************************************************)
(* C3 as stated: a record is emitted for every log call the logger's level *)
(* admits, whatever its fields, failures of the lookups and of the         *)
(* serialization being swallowed.  Refuted by a field json.dumps cannot    *)
(* encode: the failure is swallowed, and the record is lost with it.       *)
(***************************************************************************)
C3_RecordAlwaysEmitted ==
    \A c \in DOMAIN made :
        LevelNo(made[c].level) >= LevelNo(LoggerLevel) => LinesOf(c) # {}

C5_OneLinePerCall ==
    \A c \in DOMAIN made :
        /\ Cardinality(LinesOf(c)) = 1
        /\ \A i \in LinesOf(c) : stderr[i].obj["level"] = S(made[c].level)

(***************************************************************************)
(* C6 as stated: the body of every simulated error response (get_user's    *)
(* 404, error_endpoint's 500, flaky_endpoint's 500) has the keys error,    *)
(* message, error_type and error_id.  Refuted by get_user's 404.           *)
(***************************************************************************)
C6_ErrorBodiesHaveFourKeys ==
    \A r \in Reqs :
        (/\ Returned(r)
         /\ EndpointOf(r) \in {"get_user", "error_endpoint", "flaky_endpoint"}
         /\ response[r].status_code >= 400)
            => {"error", "message", "error_type", "error_id"}
                   \subseteq DOMAIN response[r].body.v

(***************************************************************************)
(* C7: whatever error_endpoint draws, the response it returns has status   *)
(* 500, an error_id of exactly 8 characters and one of the four declared   *)
(* error types.                                                            *)
(***************************************************************************)
C7_ErrorEndpointShape ==
    \A r \in Reqs :
        (Returned(r) /\ request[r].path = "/api/error") =>
            /\ response[r].status_code = 500
            /\ response[r].body.t = "dict"
            /\ {"error_id", "error_type"} \subseteq DOMAIN response[r].body.v
            /\ response[r].body.v["error_id"].t = "str"
            /\ Len(response[r].body.v["error_id"].v) = 8
            /\ response[r].body.v["error_type"].v \in
                   {"database_timeout", "external_service_down", "memory_limit",
                    "invalid_state"}

\* An error response sent with the last of the four types.
C7_Witness ==
    \E r \in Reqs :
        /\ Sent(r) /\ ~unhandled[r] /\ request[r].path = "/api/error"
        /\ response[r].body.v["error_type"] = S("invalid_state")

C9_RequestStateIsPrivate ==
    /\ \A r \in Reqs :
          Started(r) =>
             /\ g_getattr(G(g, r), "correlation_id").v = S(issued[r].correlation_id)
             /\ g_getattr(G(g, r), "start_time").v = N(issued[r].start_time)
    /\ \A i \in JsonLines : stderr[i].ctx # NoCtx => CarriesIssued(i, stderr[i].ctx)
    /\ \A r \in Reqs :
          Sent(r) => response[r].headers["X-Correlation-ID"] = issued[r].correlation_id
    /\ \A r, q \in Reqs :
          (r # q /\ Started(r) /\ Started(q))
              => issued[r].correlation_id # issued[q].correlation_id

\* Two requests overlap: one is answered while the other, started at a
\* later time, is still in its handler.
C9_Witness ==
    \E r, q \in Reqs :
        /\ r # q /\ Sent(r) /\ pc[q] = "handler"
        /\ issued[q].start_time > issued[r].start_time
        /\ \E i, j \in JsonLines :
              i < j /\ stderr[i].ctx = q /\ stderr[j].ctx = r

(***************************************************************************)
(* C10: the step of after_request leaves the status code and the body of   *)
(* the response as the handler returned them; of the headers it changes    *)
(* only X-Correlation-ID.                                                  *)
(***************************************************************************)
AfterRequestFrame ==
    \A r \in Reqs :
        (pc[r] = "after" /\ pc'[r] = "done") =>
            /\ response'[r].status_code = response[r].status_code
            /\ response'[r].body = response[r].body
            /\ DOMAIN response'[r].headers =
                   DOMAIN response[r].headers \cup {"X-Correlation-ID"}
            /\ \A h \in DOMAIN response[r].headers :
                   response'[r].headers[h] = response[r].headers[h]

C10_AfterRequestKeepsStatusAndBody == [][AfterRequestFrame]_vars

\* after_request has run on a 404 response with a JSON body.
C10_Witness ==
    \E r \in Reqs :
        /\ Sent(r) /\ response[r].status_code = 404
        /\ response[r].body.t = "dict"
        /\ "X-Correlation-ID" \in DOMAIN response[r].headers

(***************************************************************************)
(* C11.  Every request handled by an instrumented route increments         *)
(* REQUEST_COUNT exactly once and observes REQUEST_DURATION exactly once;  *)
(* the endpoint label is the route's template (for /api/users/<id> it is   *)
(* '/api/users/{id}', never the path with the id in it) and the status     *)
(* label is the status code of the response the handler returns.           *)
(***************************************************************************)
\* The view functions that carry the two metric lines.
InstrumentedViews == {"home", "list_users", "get_user", "slow_endpoint",
                      "error_endpoint", "flaky_endpoint"}

\* The route template of an instrumented view.
TemplateOf(view) ==
    CASE view = "home" -> "/"
      [] view = "list_users" -> "/api/users"
      [] view = "get_user" -> "/api/users/{id}"
      [] view = "slow_endpoint" -> "/api/slow"
      [] view = "error_endpoint" -> "/api/error"
      [] view = "flaky_endpoint" -> "/api/flaky"

RouteTemplates == {TemplateOf(view) : view \in InstrumentedViews}

\* The handler of an instrumented route returned a response for r.
Handled(r) == Returned(r) /\ EndpointOf(r) \in InstrumentedViews

\* The labels the claim gives the samples of r.
DurationLabelsOf(r) ==
    [method |-> request[r].method, endpoint |-> TemplateOf(EndpointOf(r))]
CountLabelsOf(r) ==
    [method |-> request[r].method, endpoint |-> TemplateOf(EndpointOf(r)),
     status |-> ToString(response[r].status_code)]

Observations(labels) ==
    IF labels \in DOMAIN REQUEST_DURATION THEN REQUEST_DURATION[labels].count ELSE 0

\* C11: under every label set the counter holds one sample per handled
\* request with those labels and the histogram one observation per handled
\* request with those labels, and no sample has an endpoint label outside
\* the route templates.
C11_OneSamplePerHandledRequest ==
    /\ \A l \in BagToSet(REQUEST_COUNT) \cup {CountLabelsOf(r) : r \in {q \in Reqs : Handled(q)}} :
           /\ CopiesIn(l, REQUEST_COUNT) =
                  Cardinality({r \in Reqs : Handled(r) /\ CountLabelsOf(r) = l})
           /\ l.endpoint \in RouteTemplates
    /\ \A l \in DOMAIN REQUEST_DURATION \cup {DurationLabelsOf(r) : r \in {q \in Reqs : Handled(q)}} :
           /\ Observations(l) =
                  Cardinality({r \in Reqs : Handled(r) /\ DurationLabelsOf(r) = l})
           /\ l.endpoint \in RouteTemplates

\* get_user has answered 404 for /api/users/1500 and the one sample of the
\* counter is under the template and the status 404.
C11_Witness ==
    \E r \in Reqs :
        /\ Handled(r)
        /\ request[r].path = UserPath(1500)
        /\ response[r].status_code = 404
        /\ CopiesIn([method |-> "GET", endpoint |-> "/api/users/{id}", status |-> "404"],
                    REQUEST_COUNT) = 1
        /\ Observations([method |-> "GET", endpoint |-> "/api/users/{id}"]) = 1

====
